---- MODULE Spec2Model ----
(***************************************************************************)
(* A model of the chainable validation library PromptValidator             *)
(* (PromptSchema and its Boolean / Number / String / Object / Array        *)
(* subclasses, and the PromptValidator factory).                           *)
(*                                                                         *)
(* JavaScript values are tagged tuples, schema instances live in a heap,   *)
(* the arrays of validators they hold live in a second heap (so that the   *)
(* sharing `new C(this.checks)` creates is visible), and a method call     *)
(* runs on an explicit call stack, one frame per JavaScript call.          *)
(***************************************************************************)
EXTENDS Integers, Sequences, FiniteSets, TLC

VARIABLES
    heap,      \* the schema instances, in order of construction
    arrs,      \* the validator arrays (`checks`) the instances refer to
    lastChain, \* the last factory / chain call: <<method, receiver, result>>
    call,      \* the validation call in progress or last finished
    stack,     \* the JavaScript call stack of that call
    outcome,   \* how the call ended: a returned value or a raised error
    lastIndex, \* the lastIndex property of each RegExp object with flag g or y
    applied    \* the arguments the call in progress has passed to a transformFn

vars == <<heap, arrs, lastChain, call, stack, outcome, lastIndex, applied>>

-----------------------------------------------------------------------------
(* Bounds of the model *)

MaxSchemas == 3      \* schema instances constructed in one run
StackLimit == 5      \* frames the engine's call stack holds before RangeError

-----------------------------------------------------------------------------
(* JavaScript values *)

Null      == <<"null">>
Undefined == <<"undefined">>
Bool(b)   == <<"boolean", b>>
\* a number i + h/2 with h \in {0, 1}: the integers and the halves between them
Number(i, h) == <<"number", i, h>>
Num(i)    == Number(i, 0)
Str(s)    == <<"string", s>>
Arr(xs)   == <<"array", xs>>
\* an object is the sequence of its own <<key, value>> properties
Obj(kvs)  == <<"object", kvs>>

TypeOf(v) == IF v[1] \in {"null", "array"} THEN "object" ELSE v[1]
IsArray(v) == v[1] = "array"
IsNullish(v) == v = Null \/ v = Undefined

IsInteger(v) == v[3] = 0

\* the white space trim() removes and \s matches, as far as inputs use it
Whitespace == {" ", "\t", "\n", "\r"}
UpperChars == {"A", "B", "C", "D", "E", "F", "G", "H", "I", "J", "K", "L", "M",
               "N", "O", "P", "Q", "R", "S", "T", "U", "V", "W", "X", "Y", "Z"}
LowerChars == {"a", "b", "c", "d", "e", "f", "g", "h", "i", "j", "k", "l", "m",
               "n", "o", "p", "q", "r", "s", "t", "u", "v", "w", "x", "y", "z"}
DigitChars == {"0", "1", "2", "3", "4", "5", "6", "7", "8", "9"}
PunctChars == {"!", "@", "#", "$", "%", "^", "&", "*", "(", ")", "_", "+", "-",
               "=", "[", "]", "{", "}", ";", "'", ":", "\"", "\\", "|", ",",
               ".", "<", ">", "/", "?"}

\* the i-th character of a string, as a string of length 1
Char(s, i) == SubSeq(s, i, i)

RECURSIVE TrimStart(_)
TrimStart(s) ==
    IF Len(s) > 0 /\ Char(s, 1) \in Whitespace
    THEN TrimStart(SubSeq(s, 2, Len(s))) ELSE s

RECURSIVE TrimEnd(_)
TrimEnd(s) ==
    IF Len(s) > 0 /\ Char(s, Len(s)) \in Whitespace
    THEN TrimEnd(SubSeq(s, 1, Len(s) - 1)) ELSE s

\* String.prototype.trim
Trim(s) == TrimEnd(TrimStart(s))

StartsWith(s, prefix) ==
    Len(prefix) <= Len(s) /\ SubSeq(s, 1, Len(prefix)) = prefix

EndsWith(s, suffix) ==
    Len(suffix) <= Len(s) /\ SubSeq(s, Len(s) - Len(suffix) + 1, Len(s)) = suffix

AlnumChars == UpperChars \cup LowerChars \cup DigitChars

\* The RegExp objects callers pass to regex(): the five literals of the demo
\* application, which carry no flag, and two objects that carry the global
\* flag and the sticky flag.
RegexFlags(pattern) ==
    IF pattern = "/[A-Z]/g" THEN "g" ELSE IF pattern = "/[a-z]/y" THEN "y" ELSE ""

RegexSource(pattern) ==
    IF RegexFlags(pattern) = "" THEN pattern ELSE SubSeq(pattern, 2, Len(pattern) - 2)

FlaggedPatterns == {"/[A-Z]/g", "/[a-z]/y"}

\* lastIndex of every RegExp object when it is created
ZeroLastIndex == [pattern \in FlaggedPatterns |-> 0]

\* whether the source matches s at the 0-based position i
MatchAt(source, s, i) ==
    CASE source = "[A-Z]" -> i < Len(s) /\ Char(s, i + 1) \in UpperChars
      [] source = "[a-z]" -> i < Len(s) /\ Char(s, i + 1) \in LowerChars
      [] source = "[0-9]" -> i < Len(s) /\ Char(s, i + 1) \in DigitChars
      [] source = "[^A-Za-z0-9]" -> i < Len(s) /\ Char(s, i + 1) \notin AlnumChars
      [] source = "^[A-Za-z0-9!@#...]*$" ->
            i = 0 /\ \A j \in 1..Len(s) : Char(s, j) \in AlnumChars \cup PunctChars

\* where the match that starts at i ends
MatchEnd(source, s, i) ==
    IF source = "^[A-Za-z0-9!@#...]*$" THEN Len(s) ELSE i + 1

\* pattern.test(s) on a RegExp object whose lastIndex is li: whether it
\* matches, and the lastIndex it leaves.  Without g and y the search starts at
\* 0 and lastIndex is neither read nor written; with g it starts at lastIndex,
\* with y it tries lastIndex only; a match leaves lastIndex at its end, a
\* failure leaves 0.
RegexExec(pattern, s, li) ==
    LET flags  == RegexFlags(pattern)
        source == RegexSource(pattern)
        start  == IF flags = "" THEN 0 ELSE li
        tries  == IF flags = "y" THEN {start} ELSE start..Len(s)
        hits   == { i \in tries : i <= Len(s) /\ MatchAt(source, s, i) }
        first  == CHOOSE i \in hits : \A j \in hits : i <= j
    IN  IF hits = {}
        THEN [found |-> FALSE, lastIndex |-> IF flags = "" THEN li ELSE 0]
        ELSE [found |-> TRUE,
              lastIndex |-> IF flags = "" THEN li ELSE MatchEnd(source, s, first)]

\* pattern.test(s) on a RegExp object whose lastIndex is 0
RegexTest(pattern, s) == RegexExec(pattern, s, 0).found

WordChars == AlnumChars \cup {"_"}

IndexOfChar(s, c) ==
    IF \E i \in 1..Len(s) : Char(s, i) = c
    THEN CHOOSE i \in 1..Len(s) : Char(s, i) = c /\ \A j \in 1..(i - 1) : Char(s, j) # c
    ELSE 0

\* emailRegex.test(s) for /^[^\s@]+@[^\s@]+\.[^\s@]+$/: no white space, one @
\* that is not the first character, and after it a dot with a character
\* before it and a character after it
EmailTest(s) ==
    LET at == IndexOfChar(s, "@")
    IN  /\ at > 1
        /\ \A i \in 1..Len(s) : Char(s, i) \notin Whitespace /\ (Char(s, i) = "@" => i = at)
        /\ \E dot \in (at + 2)..(Len(s) - 1) : Char(s, dot) = "."

\* ([\w-]+\.)+[\w-]+ : labels of word characters and dashes, at least two,
\* separated by single dots
HostTest(h) ==
    /\ Len(h) > 0
    /\ \A i \in 1..Len(h) : Char(h, i) \in WordChars \cup {"-", "."}
    /\ \E i \in 1..Len(h) : Char(h, i) = "."
    /\ Char(h, 1) # "." /\ Char(h, Len(h)) # "."
    /\ \A i \in 1..(Len(h) - 1) : ~(Char(h, i) = "." /\ Char(h, i + 1) = ".")

\* urlRegex.test(s) for /^(https?:\/\/)?([\w-]+\.)+[\w-]+(\/[\w- ./?%&=]*)?$/
UrlTest(s) ==
    LET rest  == IF StartsWith(s, "http://") THEN SubSeq(s, 8, Len(s))
                 ELSE IF StartsWith(s, "https://") THEN SubSeq(s, 9, Len(s))
                 ELSE s
        slash == IndexOfChar(rest, "/")
        host  == IF slash = 0 THEN rest ELSE SubSeq(rest, 1, slash - 1)
        path  == IF slash = 0 THEN "" ELSE SubSeq(rest, slash + 1, Len(rest))
    IN  /\ HostTest(host)
        /\ \A i \in 1..Len(path) :
              Char(path, i) \in WordChars \cup {"-", " ", ".", "/", "?", "%", "&", "="}

-----------------------------------------------------------------------------
(* Validators: the closures the chain methods create.  A validator applied *)
(* to a value yields null (NoError) or its message (Error(m)).             *)

NoError  == <<>>
Error(m) == <<m>>

\* `if (error)`: null and the empty string are falsy
Truthy(e) == e # NoError /\ e[1] # ""

\* a validator closure: the method that made it and what it captured
\* (n: the bound, p: the pattern / affix / predicate / comparator, msg)
Validator(op, n, p, msg) == [op |-> op, n |-> n, p |-> p, msg |-> msg]

\* the predicates callers pass to refine
Apply(fn, v) ==
    CASE fn = "isEven"   -> v[1] = "number" /\ v[3] = 0 /\ v[2] % 2 = 0
      [] fn = "nonEmpty" -> v[1] = "string" /\ v[2] # ""
      [] fn = "never"    -> FALSE
      [] fn = "always"   -> TRUE

\* the comparators callers pass to unique
Apply2(fn, a, b) ==
    CASE fn = "sameType" -> a[1] = b[1]
      [] fn = "never"    -> FALSE

\* the output transforms callers pass to transform
ApplyTransform(fn, v) ==
    CASE fn = "typeOf" -> Str(TypeOf(v))
      [] fn = "wrap"   -> Arr(<<v>>)

\* a === b: primitives by value; every array or object of an input is a
\* reference of its own
StrictEquals(a, b) == a[1] \notin {"array", "object"} /\ a = b

\* a < b and a > b on numbers
NumLess(a, b)    == a[2] < b[2] \/ (a[2] = b[2] /\ a[3] < b[3])
NumGreater(a, b) == NumLess(b, a)

RequiredCheck(message, value) ==
    IF value = Null \/ value = Undefined THEN Error(message)
    ELSE IF TypeOf(value) = "string" /\ Trim(value[2]) = "" THEN Error(message)
    ELSE IF IsArray(value) /\ Len(value[2]) = 0 THEN Error(message)
    ELSE NoError

RefineCheck(validator, message, value) ==
    IF Apply(validator, value) THEN NoError ELSE Error(message)

BooleanFalse(message, value) ==
    IF value # Bool(FALSE) THEN Error(message) ELSE NoError

BooleanTrue(message, value) ==
    IF value # Bool(TRUE) THEN Error(message) ELSE NoError

NumberInteger(message, value) ==
    IF TypeOf(value) = "number" /\ ~IsInteger(value) THEN Error(message) ELSE NoError

NumberMax(value, message, val) ==
    IF TypeOf(val) = "number" /\ NumGreater(val, Num(value))
    THEN Error(message) ELSE NoError

\* min as `typeof val !== 'number' || val < value ? message : null`: a value
\* of another kind fails the constraint
NumberMinUnguarded(value, message, val) ==
    IF TypeOf(val) # "number" \/ NumLess(val, Num(value))
    THEN Error(message) ELSE NoError

NumberMin(value, message, val) ==
    IF TypeOf(val) = "number" /\ NumLess(val, Num(value))
    THEN Error(message) ELSE NoError

\* max and min of the library's copy without transform: the closure's
\* parameter is named `value` too and hides the bound
NumberMaxShadowed(bound, message, value) ==
    IF TypeOf(value) = "number" /\ NumGreater(value, value)
    THEN Error(message) ELSE NoError

NumberMinShadowed(bound, message, value) ==
    IF TypeOf(value) = "number" /\ NumLess(value, value)
    THEN Error(message) ELSE NoError

NumberNegative(message, value) ==
    IF TypeOf(value) = "number" /\ ~NumLess(value, Num(0))
    THEN Error(message) ELSE NoError

NumberNonnegative(message, value) ==
    IF TypeOf(value) = "number" /\ NumLess(value, Num(0))
    THEN Error(message) ELSE NoError

NumberPositive(message, value) ==
    IF TypeOf(value) = "number" /\ ~NumGreater(value, Num(0))
    THEN Error(message) ELSE NoError

StringEmail(message, value) ==
    IF TypeOf(value) = "string" /\ ~EmailTest(value[2])
    THEN Error(message) ELSE NoError

StringUrl(message, value) ==
    IF TypeOf(value) = "string" /\ ~UrlTest(value[2])
    THEN Error(message) ELSE NoError

StringEndsWith(suffix, message, value) ==
    IF TypeOf(value) = "string" /\ ~EndsWith(value[2], suffix)
    THEN Error(message) ELSE NoError

StringMax(length, message, value) ==
    IF TypeOf(value) = "string" /\ Len(value[2]) > length
    THEN Error(message) ELSE NoError

StringMin(length, message, value) ==
    IF TypeOf(value) = "string" /\ Len(value[2]) < length
    THEN Error(message) ELSE NoError

StringRegex(pattern, message, value) ==
    IF TypeOf(value) = "string" /\ ~RegexTest(pattern, value[2])
    THEN Error(message) ELSE NoError

StringStartsWith(prefix, message, value) ==
    IF TypeOf(value) = "string" /\ ~StartsWith(value[2], prefix)
    THEN Error(message) ELSE NoError

ArrayMax(length, message, value) ==
    IF IsArray(value) /\ Len(value[2]) > length THEN Error(message) ELSE NoError

ArrayMin(length, message, value) ==
    IF IsArray(value) /\ Len(value[2]) < length THEN Error(message) ELSE NoError

\* the nested loops of unique's validator: the first pair i < j (1-based) that
\* the comparator, or === without one, calls duplicates; <<0, 0>> if none
RECURSIVE FirstDuplicate(_, _, _, _)
FirstDuplicate(xs, comparator, i, j) ==
    IF i > Len(xs) THEN <<0, 0>>
    ELSE IF j > Len(xs) THEN FirstDuplicate(xs, comparator, i + 1, i + 2)
    ELSE IF (IF comparator # "undefined"
             THEN Apply2(comparator, xs[i], xs[j])
             ELSE StrictEquals(xs[i], xs[j]))
         THEN <<i, j>>
    ELSE FirstDuplicate(xs, comparator, i, j + 1)

ArrayUnique(comparator, message, value) ==
    IF ~IsArray(value) THEN NoError
    ELSE IF FirstDuplicate(value[2], comparator, 1, 2) # <<0, 0>> THEN Error(message)
    ELSE NoError

\* check(value): the validator closure c applied to a value (a pattern of
\* regex tested with lastIndex 0)
Check(c, value) ==
    CASE c.op = "required"          -> RequiredCheck(c.msg, value)
      [] c.op = "refine"            -> RefineCheck(c.p, c.msg, value)
      [] c.op = "Boolean.false"     -> BooleanFalse(c.msg, value)
      [] c.op = "Boolean.true"      -> BooleanTrue(c.msg, value)
      [] c.op = "Number.integer"    -> NumberInteger(c.msg, value)
      [] c.op = "Number.max"        -> NumberMax(c.n, c.msg, value)
      [] c.op = "Number.min"        -> NumberMin(c.n, c.msg, value)
      [] c.op = "Number001.max"     -> NumberMaxShadowed(c.n, c.msg, value)
      [] c.op = "Number001.min"     -> NumberMinShadowed(c.n, c.msg, value)
      [] c.op = "Number.negative"   -> NumberNegative(c.msg, value)
      [] c.op = "Number.nonnegative" -> NumberNonnegative(c.msg, value)
      [] c.op = "Number.positive"   -> NumberPositive(c.msg, value)
      [] c.op = "String.email"      -> StringEmail(c.msg, value)
      [] c.op = "String.url"        -> StringUrl(c.msg, value)
      [] c.op = "String.endsWith"   -> StringEndsWith(c.p, c.msg, value)
      [] c.op = "String.max"        -> StringMax(c.n, c.msg, value)
      [] c.op = "String.min"        -> StringMin(c.n, c.msg, value)
      [] c.op = "String.regex"      -> StringRegex(c.p, c.msg, value)
      [] c.op = "String.startsWith" -> StringStartsWith(c.p, c.msg, value)
      [] c.op = "Array.max"         -> ArrayMax(c.n, c.msg, value)
      [] c.op = "Array.min"         -> ArrayMin(c.n, c.msg, value)
      [] c.op = "Array.unique"      -> ArrayUnique(c.p, c.msg, value)

\* the default value of a method's message parameter
DefaultMessage(op, n, p) ==
    CASE op = "required"          -> "Required"
      [] op = "refine"            -> "Custom validation failed"
      [] op = "Boolean.false"     -> "Must be false"
      [] op = "Boolean.true"      -> "Must be true"
      [] op = "Number.integer"    -> "Must be an integer"
      [] op \in {"Number.max", "Number001.max"} -> "Must be at most " \o ToString(n)
      [] op \in {"Number.min", "Number001.min"} -> "Must be at least " \o ToString(n)
      [] op = "Number.negative"   -> "Must be negative"
      [] op = "Number.nonnegative" -> "Must be non-negative"
      [] op = "Number.positive"   -> "Must be positive"
      [] op = "String.email"      -> "Must be a valid email"
      [] op = "String.url"        -> "Must be a valid URL"
      [] op = "String.endsWith"   -> "Must end with \"" \o p \o "\""
      [] op = "String.max"        -> "Must be at most " \o ToString(n) \o " characters"
      [] op = "String.min"        -> "Must be at least " \o ToString(n) \o " characters"
      [] op = "String.regex"      -> "Invalid format"
      [] op = "String.startsWith" -> "Must start with \"" \o p \o "\""
      [] op = "Array.max"         -> "Must have at most " \o ToString(n) \o " items"
      [] op = "Array.min"         -> "Must have at least " \o ToString(n) \o " items"
      [] op = "Array.unique"      -> "Array must contain unique items"

-----------------------------------------------------------------------------
(* PromptSchema.validate and validateAll over a `checks` array *)

\* check(value) with the RegExp objects in state L: the error, and the state
\* the call leaves (only regex's validator, on a string, calls pattern.test)
CheckOn(c, value, L) ==
    IF c.op = "String.regex" /\ TypeOf(value) = "string" /\ c.p \in FlaggedPatterns
    THEN LET r == RegexExec(c.p, value[2], L[c.p])
         IN  [error |-> IF ~r.found THEN Error(c.msg) ELSE NoError,
              lastIndex |-> [L EXCEPT ![c.p] = r.lastIndex]]
    ELSE [error |-> Check(c, value), lastIndex |-> L]

\* the loop of validate from index i on, the RegExp objects in state L: the
\* first truthy error; the checks after it are not called
RECURSIVE FirstErrorFrom(_, _, _, _)
FirstErrorFrom(checks, value, i, L) ==
    IF i > Len(checks) THEN [error |-> NoError, lastIndex |-> L]
    ELSE LET r == CheckOn(checks[i], value, L)
         IN  IF Truthy(r.error) THEN r
             ELSE FirstErrorFrom(checks, value, i + 1, r.lastIndex)

\* the loop of validateAll from index i on: every truthy error, in order
RECURSIVE AllErrorsFrom(_, _, _, _)
AllErrorsFrom(checks, value, i, L) ==
    IF i > Len(checks) THEN [errors |-> <<>>, lastIndex |-> L]
    ELSE LET r    == CheckOn(checks[i], value, L)
             rest == AllErrorsFrom(checks, value, i + 1, r.lastIndex)
         IN  [errors |-> (IF Truthy(r.error) THEN <<r.error[1]>> ELSE <<>>)
                             \o rest.errors,
              lastIndex |-> rest.lastIndex]

\* this.validate(value) of PromptSchema, the RegExp objects in state L
ValidateFrom(checks, isOptional, value, L) ==
    IF (value = Undefined \/ value = Null) /\ isOptional
    THEN [error |-> NoError, lastIndex |-> L]
    ELSE FirstErrorFrom(checks, value, 1, L)

\* this.validateAll(value) of PromptSchema, the RegExp objects in state L
ValidateAllFrom(checks, isOptional, value, L) ==
    IF (value = Undefined \/ value = Null) /\ isOptional
    THEN [errors |-> <<>>, lastIndex |-> L]
    ELSE AllErrorsFrom(checks, value, 1, L)

\* the same on RegExp objects no test has used yet
FirstError(checks, value, i) == FirstErrorFrom(checks, value, i, ZeroLastIndex).error

AllErrors(checks, value, i) == AllErrorsFrom(checks, value, i, ZeroLastIndex).errors

BaseValidate(checks, isOptional, value) ==
    ValidateFrom(checks, isOptional, value, ZeroLastIndex).error

BaseValidateAll(checks, isOptional, value) ==
    ValidateAllFrom(checks, isOptional, value, ZeroLastIndex).errors

-----------------------------------------------------------------------------
(* Schema instances and their construction *)

NoTransform == <<>>
NoArgument  == <<"none">>

\* an instance: its class, the array its `checks` field refers to, its flags,
\* and what its private field (itemSchema of an Array, shape of an Object) holds:
\* <<"schema", id>>, <<"shape", <<key, id>> pairs>> or, when a chain method
\* constructed it, <<"checks", array id>>
SchemaInstance(cls, checks, isOptional, transformFn, arg) ==
    [cls |-> cls, checks |-> checks, isOptional |-> isOptional,
     transformFn |-> transformFn, arg |-> arg]

IsCompound(cls) == cls \in {"Object", "Array"}

\* `new cls(x)` on the heaps H (instances) and A (arrays).  The scalar classes
\* inherit PromptSchema's constructor, which keeps x as `checks` (a fresh []
\* without x); ObjectSchema and ArraySchema keep x as shape / itemSchema and
\* call super() with no argument.
New(H, A, cls, x) ==
    IF IsCompound(cls) \/ x = NoArgument
    THEN [heap |-> Append(H, SchemaInstance(cls, Len(A) + 1, FALSE, NoTransform,
                                           IF IsCompound(cls) THEN x ELSE NoArgument)),
          arrs |-> Append(A, <<>>)]
    ELSE [heap |-> Append(H, SchemaInstance(cls, x[2], FALSE, NoTransform, NoArgument)),
          arrs |-> A]

\* addValidator as `this.checks.push(validator); return new C(this.checks)`
AddValidatorInPlace(H, A, self, validator) ==
    LET A1 == [A EXCEPT ![H[self].checks] = Append(@, validator)]
    IN  New(H, A1, H[self].cls, <<"checks", H[self].checks>>)

\* this.addValidator(validator) on instance self
AddValidator(H, A, self, validator) ==
    LET spread == Append(A[H[self].checks], validator)   \* [...this.checks, validator]
        A1     == Append(A, spread)
    IN  New(H, A1, H[self].cls, <<"checks", Len(A1)>>)

\* optional as `new C()` with the flag set: the checks are not passed on
OptionalWithoutChecks(H, A, self) ==
    LET made == New(H, A, H[self].cls, NoArgument)
        id   == Len(made.heap)
    IN  [made EXCEPT !.heap[id].isOptional = TRUE]

\* this.optional()
Optional(H, A, self) ==
    LET made == New(H, A, H[self].cls, <<"checks", H[self].checks>>)
        id   == Len(made.heap)
    IN  [made EXCEPT !.heap[id].isOptional = TRUE]

\* this.transform(fn)
Transform(H, A, self, fn) ==
    LET made == New(H, A, H[self].cls, <<"checks", H[self].checks>>)
        id   == Len(made.heap)
    IN  [made EXCEPT !.heap[id].isOptional = H[self].isOptional,
                     !.heap[id].transformFn = <<fn>>]

\* a chain call S.m(...): m with its arguments n (a bound), p (a pattern,
\* affix, predicate, comparator or transform) and msg (<<>> when not passed)
ChainCallOf(m, n, p, msg) == [m |-> m, n |-> n, p |-> p, msg |-> msg]

\* the closure a constraint-adding method passes to addValidator
ClosureOf(cls, c) ==
    LET op == IF c.m \in {"required", "refine"} THEN c.m
              ELSE IF cls = "Number001" /\ c.m \notin {"max", "min"}
              THEN "Number." \o c.m
              ELSE cls \o "." \o c.m
    IN  Validator(op, c.n, c.p,
                  IF c.msg = <<>> THEN DefaultMessage(op, c.n, c.p) ELSE c.msg[1])

\* the methods each class declares or inherits; Number001 is NumberSchema of
\* the copy of the library that has no transform
MethodsOf(cls) ==
    {"required", "refine", "optional"} \cup
    (IF cls = "Number001" THEN {} ELSE {"transform"}) \cup
    (CASE cls = "Boolean" -> {"false", "true"}
       [] cls \in {"Number", "Number001"} ->
                             {"integer", "max", "min", "negative", "nonnegative",
                              "positive"}
       [] cls = "String"  -> {"email", "endsWith", "max", "min", "regex",
                              "startsWith", "url"}
       [] cls = "Array"   -> {"max", "min", "unique"}
       [] cls = "Object"  -> {})

\* S.m(...) for receiver self: the heaps after the call
Chain(H, A, self, c) ==
    CASE c.m = "optional"  -> Optional(H, A, self)
      [] c.m = "transform" -> Transform(H, A, self, c.p)
      [] OTHER             -> AddValidator(H, A, self, ClosureOf(H[self].cls, c))

\* what a schema is made of, instance by instance: its class, the validators
\* of its checks array, its flags and its private field
ContentOf(H, A, id) ==
    [cls |-> H[id].cls, checks |-> A[H[id].checks], isOptional |-> H[id].isOptional,
     transformFn |-> H[id].transformFn,
     arg |-> IF H[id].arg[1] = "checks"
             THEN <<"checks", A[H[id].arg[2]]>> ELSE H[id].arg]

-----------------------------------------------------------------------------
(* Plain objects: Record<string, string> error maps, shapes, input objects *)

MaxIndexKey == 99

\* a canonical array index ("0", "1", ...): such keys are enumerated first, in
\* ascending numeric order, the other keys after them in insertion order
IsIndexKey(k) == \E n \in 0..MaxIndexKey : ToString(n) = k
IndexOfKey(k) == CHOOSE n \in 0..MaxIndexKey : ToString(n) = k

HasKey(kvs, k) == \E i \in 1..Len(kvs) : kvs[i][1] = k

\* where a new key k goes in the property order of kvs
InsertAt(kvs, k) ==
    IF IsIndexKey(k)
    THEN Cardinality({ i \in 1..Len(kvs) :
                        IsIndexKey(kvs[i][1]) /\ IndexOfKey(kvs[i][1]) < IndexOfKey(k) })
    ELSE Len(kvs)

\* obj[k] = x
PutProp(kvs, k, x) ==
    IF HasKey(kvs, k)
    THEN [i \in 1..Len(kvs) |-> IF kvs[i][1] = k THEN <<k, x>> ELSE kvs[i]]
    ELSE LET at == InsertAt(kvs, k)
         IN  SubSeq(kvs, 1, at) \o << <<k, x>> >> \o SubSeq(kvs, at + 1, Len(kvs))

RECURSIVE FromPairs(_)
\* the object literal with the properties kvs, in property order
FromPairs(kvs) ==
    IF kvs = <<>> THEN <<>>
    ELSE PutProp(FromPairs(SubSeq(kvs, 1, Len(kvs) - 1)),
                 kvs[Len(kvs)][1], kvs[Len(kvs)][2])

\* value[key] for an object or array value and the keys of a shape
GetProp(value, key) ==
    IF value[1] = "object"
    THEN IF HasKey(value[2], key)
         THEN value[2][CHOOSE i \in 1..Len(value[2]) : value[2][i][1] = key][2]
         ELSE Undefined
    ELSE IF IsIndexKey(key) /\ IndexOfKey(key) < Len(value[2])
         THEN value[2][IndexOfKey(key) + 1]
    ELSE IF key = "length" THEN Num(Len(value[2]))
    ELSE Undefined

RECURSIVE JsonEscape(_)
\* the characters of s as JSON.stringify writes them inside a string
JsonEscape(s) ==
    IF Len(s) = 0 THEN ""
    ELSE LET c == Char(s, 1)
         IN  (IF c = "\"" THEN "\\\"" ELSE IF c = "\\" THEN "\\\\" ELSE c)
                 \o JsonEscape(SubSeq(s, 2, Len(s)))

RECURSIVE JsonMembers(_, _)
JsonMembers(kvs, i) ==
    IF i > Len(kvs) THEN ""
    ELSE (IF i > 1 THEN "," ELSE "")
            \o "\"" \o JsonEscape(kvs[i][1]) \o "\":\"" \o JsonEscape(kvs[i][2]) \o "\""
            \o JsonMembers(kvs, i + 1)

\* JSON.stringify(errors) for a Record<string, string>
JsonStringify(kvs) == "{" \o JsonMembers(kvs, 1) \o "}"

\* Object.entries(errors).map(([key, error]) => `${key}: ${error}`)
Flatten(kvs) == [i \in 1..Len(kvs) |-> kvs[i][1] \o ": " \o kvs[i][2]]

-----------------------------------------------------------------------------
(* The calls a caller makes while declaring schemas *)

Keys == {"a", "b"}

\* the shapes a caller can pass to object() when n instances exist
ShapesOver(n) ==
    {<<>>} \cup { << <<k, i>> >> : k \in Keys, i \in 1..n }
           \cup { << <<"a", i>>, <<"b", j>> >> : i \in 1..n, j \in 1..n }

ScalarClasses == {"String", "Number", "Boolean"}

UniversalCalls ==
    { ChainCallOf("required", 0, "", <<>>),
      ChainCallOf("required", 0, "", <<"">>),
      ChainCallOf("refine", 0, "isEven", <<>>),
      ChainCallOf("optional", 0, "", <<>>),
      ChainCallOf("transform", 0, "typeOf", <<>>) }

KindCalls(cls) ==
    CASE cls = "Boolean" -> { ChainCallOf("true", 0, "", <<>>) }
      [] cls = "Number"  -> { ChainCallOf("min", 5, "", <<>>),
                              ChainCallOf("max", 5, "", <<>>),
                              ChainCallOf("positive", 0, "", <<>>) }
      [] cls = "String"  -> { ChainCallOf("min", 3, "", <<>>),
                              ChainCallOf("regex", 0, "[A-Z]",
                                          <<"A uppercase letter is required">>) }
      [] cls = "Array"   -> { ChainCallOf("min", 1, "", <<>>),
                              ChainCallOf("unique", 0, "undefined", <<>>) }
      [] cls = "Object"  -> {}

CallsOn(cls) == { c \in UniversalCalls \cup KindCalls(cls) : c.m \in MethodsOf(cls) }

NoCall == [op |-> "none", self |-> 0, value |-> Undefined]

Init ==
    /\ heap = <<>>
    /\ arrs = <<>>
    /\ lastChain = <<"none", 0, 0>>
    /\ call = NoCall
    /\ stack = <<>>
    /\ outcome = <<"none">>
    /\ lastIndex = ZeroLastIndex
    /\ applied = <<>>

\* PromptValidator.string(), .number(), .boolean()
FactoryScalar ==
    /\ Len(heap) < MaxSchemas
    /\ \E cls \in ScalarClasses :
        LET made == New(heap, arrs, cls, NoArgument)
        IN  /\ heap' = made.heap
            /\ arrs' = made.arrs
            /\ lastChain' = <<"factory", 0, Len(made.heap)>>
    /\ UNCHANGED <<call, stack, outcome, lastIndex, applied>>

\* PromptValidator.array(itemSchema)
FactoryArray ==
    /\ Len(heap) < MaxSchemas
    /\ \E item \in 1..Len(heap) :
        LET made == New(heap, arrs, "Array", <<"schema", item>>)
        IN  /\ heap' = made.heap
            /\ arrs' = made.arrs
            /\ lastChain' = <<"factory", 0, Len(made.heap)>>
    /\ UNCHANGED <<call, stack, outcome, lastIndex, applied>>

\* PromptValidator.object(shape)
FactoryObject ==
    /\ Len(heap) < MaxSchemas
    /\ \E shape \in ShapesOver(Len(heap)) :
        LET made == New(heap, arrs, "Object", <<"shape", shape>>)
        IN  /\ heap' = made.heap
            /\ arrs' = made.arrs
            /\ lastChain' = <<"factory", 0, Len(made.heap)>>
    /\ UNCHANGED <<call, stack, outcome, lastIndex, applied>>

\* S.m(...) for an instance S of the heap
ChainCall ==
    /\ Len(heap) < MaxSchemas
    /\ \E self \in 1..Len(heap) : \E c \in CallsOn(heap[self].cls) :
        LET made == Chain(heap, arrs, self, c)
        IN  /\ heap' = made.heap
            /\ arrs' = made.arrs
            /\ lastChain' = <<c.m, self, Len(made.heap)>>
    /\ UNCHANGED <<call, stack, outcome, lastIndex, applied>>

Next == FactoryScalar \/ FactoryArray \/ FactoryObject \/ ChainCall

Spec == Init /\ [][Next]_vars

-----------------------------------------------------------------------------
(* Validation calls.  Every JavaScript call is a frame of `stack`; a method  *)
(* that calls another pushes the callee's frame and resumes when it returns. *)
(* An error raised in any frame unwinds the whole stack (the library has no  *)
(* try / catch).                                                             *)

Frame(m, self, value) ==
    [m |-> m, self |-> self, value |-> value, pc |-> "start", i |-> 1,
     errors |-> <<>>, success |-> TRUE, ret |-> <<"none">>]

\* the object safeParse returns: a field that is not set is <<>>
Result(success, error, errors, data) == <<"result", success, error, errors, data>>

\* the class whose method body runs for an instance of class cls:
\* ObjectSchema and ArraySchema override parse, safeParse, validate and
\* validateAll; the scalar classes inherit them from PromptSchema
ImplOf(cls) == IF IsCompound(cls) THEN cls ELSE "Prompt"

Top == stack[Len(stack)]
Running(impl, methods) ==
    /\ stack # <<>>
    /\ ImplOf(heap[Top.self].cls) = impl
    /\ Top.m \in methods

\* `return r`
Return(r) ==
    IF Len(stack) = 1
    THEN /\ stack' = <<>>
         /\ outcome' = <<"return", r>>
    ELSE /\ stack' = [SubSeq(stack, 1, Len(stack) - 1)
                        EXCEPT ![Len(stack) - 1].ret = r]
         /\ UNCHANGED outcome

\* an error raised and caught by nobody
Throw(name, message) ==
    /\ stack' = <<>>
    /\ outcome' = <<"throw", name, message>>

\* the running frame, updated to `frame`, calls target.m(value); a call the
\* stack has no room for raises RangeError
Invoke(frame, m, target, value) ==
    IF Len(stack) >= StackLimit
    THEN Throw("RangeError", "Maximum call stack size exceeded")
    ELSE /\ stack' = Append([stack EXCEPT ![Len(stack)] = frame],
                            Frame(m, target, value))
         /\ UNCHANGED outcome

\* this.transformFn ? this.transformFn(value) : value
Output(self, value) ==
    IF heap[self].transformFn # NoTransform
    THEN ApplyTransform(heap[self].transformFn[1], value)
    ELSE value

\* the same expression: the arguments transformFn has been called with after it
Applied(self, value) ==
    IF heap[self].transformFn # NoTransform THEN Append(applied, value) ELSE applied

\* PromptSchema.validate
PromptValidate ==
    /\ Running("Prompt", {"validate"})
    /\ LET r == ValidateFrom(arrs[heap[Top.self].checks], heap[Top.self].isOptional,
                              Top.value, lastIndex)
       IN  /\ Return(r.error)
           /\ lastIndex' = r.lastIndex
    /\ UNCHANGED <<heap, arrs, lastChain, call, applied>>

\* PromptSchema.validateAll
PromptValidateAll ==
    /\ Running("Prompt", {"validateAll"})
    /\ LET r == ValidateAllFrom(arrs[heap[Top.self].checks], heap[Top.self].isOptional,
                                 Top.value, lastIndex)
       IN  /\ Return(r.errors)
           /\ lastIndex' = r.lastIndex
    /\ UNCHANGED <<heap, arrs, lastChain, call, applied>>

\* PromptSchema.parse
PromptParse ==
    /\ Running("Prompt", {"parse"})
    /\ IF Top.pc = "start"
       THEN /\ Invoke([Top EXCEPT !.pc = "resume"], "validate", Top.self, Top.value)
            /\ UNCHANGED applied
       ELSE LET error == Top.ret
            IN  IF Truthy(error)
                THEN /\ Throw("Error", error[1])
                     /\ UNCHANGED applied
                ELSE /\ Return(Output(Top.self, Top.value))
                     /\ applied' = Applied(Top.self, Top.value)
    /\ UNCHANGED <<heap, arrs, lastChain, call, lastIndex>>

\* PromptSchema.safeParse
PromptSafeParse ==
    /\ Running("Prompt", {"safeParse"})
    /\ IF Top.pc = "start"
       THEN /\ Invoke([Top EXCEPT !.pc = "resume"], "validate", Top.self, Top.value)
            /\ UNCHANGED applied
       ELSE LET error == Top.ret
            IN  IF Truthy(error)
                THEN /\ Return(Result(FALSE, error, <<>>, <<>>))
                     /\ UNCHANGED applied
                ELSE /\ Return(Result(TRUE, <<>>, <<>>, <<Output(Top.self, Top.value)>>))
                     /\ applied' = Applied(Top.self, Top.value)
    /\ UNCHANGED <<heap, arrs, lastChain, call, lastIndex>>

\* the keys `for (const key in this.shape)` enumerates: those of the shape, or
\* the indices of the validator array a chain method passed as the shape
ForInKeys(arg) ==
    IF arg[1] = "shape"
    THEN LET props == FromPairs(arg[2]) IN [i \in 1..Len(props) |-> props[i][1]]
    ELSE [i \in 1..Len(arrs[arg[2]]) |-> ToString(i - 1)]

\* ObjectSchema.safeParse
ObjectSafeParse ==
    /\ Running("Object", {"safeParse"})
    /\ LET f      == Top
           value  == f.value
           shape  == heap[f.self].arg
           keys   == ForInKeys(shape)
       IN  CASE f.pc = "start" ->
                  IF value = Null \/ value = Undefined \/ TypeOf(value) # "object"
                  THEN Return(Result(FALSE, <<>>,
                                     << << <<"root", "Must be an object">> >> >>, <<>>))
                  ELSE /\ stack' = [stack EXCEPT ![Len(stack)].pc = "loop"]
                       /\ UNCHANGED outcome
             [] f.pc = "loop" ->
                  IF f.i > Len(keys)
                  THEN IF f.success
                       THEN Return(Result(TRUE, <<>>, <<>>, <<>>))
                       ELSE Return(Result(FALSE, <<>>, <<f.errors>>, <<>>))
                  ELSE IF shape[1] # "shape"
                       \* this.shape[key] is a validator function: it has no validate
                       THEN Throw("TypeError", "schema.validate is not a function")
                       ELSE Invoke([f EXCEPT !.pc = "field"], "validate",
                                   GetProp(Obj(shape[2]), keys[f.i]),
                                   GetProp(value, keys[f.i]))
             [] f.pc = "field" ->
                  /\ stack' = [stack EXCEPT ![Len(stack)] =
                        [f EXCEPT !.pc = "loop", !.i = f.i + 1,
                                  !.errors = IF Truthy(f.ret)
                                             THEN PutProp(f.errors, keys[f.i], f.ret[1])
                                             ELSE f.errors,
                                  !.success = f.success /\ ~Truthy(f.ret)]]
                  /\ UNCHANGED outcome
    /\ UNCHANGED <<heap, arrs, lastChain, call, lastIndex, applied>>

\* ArraySchema.safeParse
ArraySafeParse ==
    /\ Running("Array", {"safeParse"})
    /\ LET f          == Top
           value      == f.value
           itemSchema == heap[f.self].arg
       IN  CASE f.pc = "start" ->
                  IF ~IsArray(value)
                  THEN Return(Result(FALSE, <<>>,
                                     << << <<"root", "Must be an array">> >> >>, <<>>))
                  ELSE /\ stack' = [stack EXCEPT ![Len(stack)].pc = "loop"]
                       /\ UNCHANGED outcome
             [] f.pc = "loop" ->
                  IF f.i > Len(value[2])
                  THEN \* const arrayErrors = this.validate(value)
                       Invoke([f EXCEPT !.pc = "root"], "validate", f.self, value)
                  ELSE IF itemSchema[1] # "schema"
                       \* this.itemSchema is an array of validators
                       THEN Throw("TypeError", "this.itemSchema.validate is not a function")
                       ELSE Invoke([f EXCEPT !.pc = "item"], "validate",
                                   itemSchema[2], value[2][f.i])
             [] f.pc = "item" ->
                  /\ stack' = [stack EXCEPT ![Len(stack)] =
                        [f EXCEPT !.pc = "loop", !.i = f.i + 1,
                                  !.errors = IF Truthy(f.ret)
                                             THEN PutProp(f.errors, ToString(f.i - 1),
                                                          f.ret[1])
                                             ELSE f.errors,
                                  !.success = f.success /\ ~Truthy(f.ret)]]
                  /\ UNCHANGED outcome
             [] f.pc = "root" ->
                  LET errors  == IF Truthy(f.ret)
                                 THEN PutProp(f.errors, "root", f.ret[1])
                                 ELSE f.errors
                      success == f.success /\ ~Truthy(f.ret)
                  IN  IF success
                      THEN Return(Result(TRUE, <<>>, <<>>, <<>>))
                      ELSE Return(Result(FALSE, <<>>, <<errors>>, <<>>))
    /\ UNCHANGED <<heap, arrs, lastChain, call, lastIndex, applied>>

\* validate, validateAll and parse of ObjectSchema and of ArraySchema: each
\* calls this.safeParse(value) and converts the result
CompoundDelegate ==
    /\ \/ Running("Object", {"validate", "validateAll", "parse"})
       \/ Running("Array", {"validate", "validateAll", "parse"})
    /\ LET f      == Top
           result == f.ret
           errors == IF result[4] = <<>> THEN <<>> ELSE result[4][1]
       IN  IF f.pc = "start"
           THEN /\ Invoke([f EXCEPT !.pc = "resume"], "safeParse", f.self, f.value)
                /\ UNCHANGED applied
           ELSE CASE f.m = "validate" ->
                       /\ Return(IF result[2] THEN NoError
                                 ELSE Error(JsonStringify(errors)))
                       /\ UNCHANGED applied
                  [] f.m = "validateAll" ->
                       /\ Return(IF result[2] THEN <<>> ELSE Flatten(errors))
                       /\ UNCHANGED applied
                  [] f.m = "parse" ->
                       IF ~result[2]
                       THEN /\ Throw("Error", JsonStringify(errors))
                            /\ UNCHANGED applied
                       ELSE /\ Return(Output(f.self, f.value))
                            /\ applied' = Applied(f.self, f.value)
    /\ UNCHANGED <<heap, arrs, lastChain, call, lastIndex>>

-----------------------------------------------------------------------------
(* Declared schemas and the calls that validate with them *)

NewStep(cls, arg)   == [new |-> TRUE, cls |-> cls, arg |-> arg, self |-> 0,
                        c |-> ChainCallOf("", 0, "", <<>>)]
ChainStep(self, c)  == [new |-> FALSE, cls |-> "", arg |-> NoArgument, self |-> self,
                        c |-> c]
Method(self, m)          == ChainStep(self, ChainCallOf(m, 0, "", <<>>))
MethodN(self, m, n)      == ChainStep(self, ChainCallOf(m, n, "", <<>>))
MethodP(self, m, p, msg) == ChainStep(self, ChainCallOf(m, 0, p, msg))

\* the heaps after the declarations prog[i..]
RECURSIVE Declare(_, _, _, _)
Declare(H, A, prog, i) ==
    IF i > Len(prog) THEN [heap |-> H, arrs |-> A]
    ELSE LET s    == prog[i]
             made == IF s.new THEN New(H, A, s.cls, s.arg)
                     ELSE Chain(H, A, s.self, s.c)
         IN  Declare(made.heap, made.arrs, prog, i + 1)

\* every chain call of a program is a method of its receiver's class
WellTyped(prog) ==
    LET H == Declare(<<>>, <<>>, prog, 1).heap
    IN  \A i \in 1..Len(prog) :
            ~prog[i].new => prog[i].c.m \in MethodsOf(H[prog[i].self].cls)

\* promptSchema of the demo application
PasswordSchema ==
    << NewStep("String", NoArgument),
       ChainStep(1, ChainCallOf("min", 8, "", <<"Must be at least characters">>)),
       ChainStep(2, ChainCallOf("max", 255, "", <<"Must be at most characters">>)),
       MethodP(3, "regex", "[A-Z]", <<"A uppercase letter is required">>),
       MethodP(4, "regex", "[a-z]", <<"A lowercase letter is required">>),
       MethodP(5, "regex", "[0-9]", <<"A number is required">>),
       MethodP(6, "regex", "[^A-Za-z0-9]", <<"A special character is required">>),
       MethodP(7, "regex", "^[A-Za-z0-9!@#...]*$", <<"Use only Latin characters">>) >>

\* string schemas with default and empty messages
StringSchemas ==
    << NewStep("String", NoArgument),
       MethodN(1, "min", 8),                                       \* 2
       MethodP(2, "regex", "[A-Z]", <<"A uppercase letter is required">>), \* 3
       MethodN(1, "max", 2),                                       \* 4
       MethodP(4, "refine", "nonEmpty", <<"">>),                   \* 5
       MethodP(5, "startsWith", "a", <<>>),                        \* 6
       MethodP(1, "endsWith", "c", <<>>),                          \* 7
       Method(3, "required"),                                      \* 8
       Method(8, "optional"),                                      \* 9
       Method(1, "email"),                                         \* 10
       Method(1, "url") >>                                         \* 11

\* number schemas: bounds, modifiers in both orders, transform
NumberSchemas ==
    << NewStep("Number", NoArgument),
       MethodN(1, "min", 5),                                       \* 2
       MethodN(2, "max", 5),                                       \* 3
       Method(1, "required"),                                      \* 4
       Method(4, "optional"),                                      \* 5
       Method(1, "optional"),                                      \* 6
       Method(6, "required"),                                      \* 7
       MethodP(1, "transform", "typeOf", <<>>),                    \* 8
       MethodN(8, "min", 5),                                       \* 9
       Method(3, "integer"),                                       \* 10
       MethodP(1, "refine", "isEven", <<>>),                       \* 11
       Method(11, "positive"),                                     \* 12
       Method(1, "negative"),                                      \* 13
       Method(1, "nonnegative") >>                                 \* 14

\* the number schemas of the copy of the library without transform
Number001Schemas ==
    << NewStep("Number001", NoArgument),
       MethodN(1, "min", 5),
       MethodN(2, "max", 5),
       Method(3, "positive") >>

BooleanSchemas ==
    << NewStep("Boolean", NoArgument),
       Method(1, "true"),
       Method(1, "false"),
       Method(2, "optional"),
       MethodP(2, "transform", "wrap", <<>>) >>

ArraySchemas ==
    << NewStep("Number", NoArgument),
       NewStep("Array", <<"schema", 1>>),                          \* 2
       MethodP(2, "unique", "undefined", <<>>),                    \* 3
       Method(1, "positive"),                                      \* 4
       NewStep("Array", <<"schema", 4>>),                          \* 5
       MethodN(5, "min", 1),                                       \* 6
       MethodN(2, "max", 2),                                       \* 7
       Method(2, "optional"),                                      \* 8
       NewStep("Array", <<"schema", 2>>) >>                        \* 9

ObjectSchemas ==
    << NewStep("String", NoArgument),
       MethodN(1, "min", 3),                                       \* 2
       NewStep("Number", NoArgument),                              \* 3
       Method(3, "positive"),                                      \* 4
       NewStep("Object", <<"shape", << <<"a", 2>>, <<"b", 4>> >> >>),   \* 5
       NewStep("Array", <<"schema", 3>>),                          \* 6
       NewStep("Object", <<"shape", << <<"a", 6>>, <<"b", 4>> >> >>),   \* 7
       NewStep("Object", <<"shape", << <<"a", 5>> >> >>),          \* 8
       NewStep("Object", <<"shape", <<>> >>),                      \* 9
       MethodP(5, "transform", "typeOf", <<>>),                    \* 10
       Method(5, "required"),                                      \* 11
       Method(4, "required"),                                      \* 12
       NewStep("Object", <<"shape", << <<"b", 12>>, <<"a", 2>> >> >>),  \* 13
       NewStep("Object", <<"shape", << <<"b", 12>>, <<"1", 12>> >> >>) >> \* 14

\* string schemas whose pattern is a RegExp object with the global flag; the
\* schema derived from the first shares its validator, and so its RegExp
GlobalRegexSchemas ==
    << NewStep("String", NoArgument),
       MethodP(1, "regex", "/[A-Z]/g", <<>>),                      \* 2
       MethodN(2, "min", 3) >>                                     \* 3

\* a string schema whose pattern is a RegExp object with the sticky flag
StickyRegexSchemas ==
    << NewStep("String", NoArgument),
       MethodP(1, "regex", "/[a-z]/y", <<>>) >>                    \* 2

Programs == { PasswordSchema, StringSchemas, NumberSchemas, Number001Schemas,
              BooleanSchemas, ArraySchemas, ObjectSchemas,
              GlobalRegexSchemas, StickyRegexSchemas }

\* the values callers validate
Values ==
    { Null, Undefined, Bool(TRUE), Bool(FALSE),
      Num(-1), Num(0), Num(4), Num(5), Num(6), Number(5, 1),
      Str(""), Str(" "), Str("a"), Str("abc"), Str("Abcdef12"), Str("Abcdef1!"),
      Str("a@b.co"), Str("http://a-b.co/x?y=1"),
      Arr(<<>>), Arr(<<Num(1), Num(2), Num(2), Num(3)>>),
      Arr(<<Num(1), Num(2), Num(3)>>), Arr(<<Num(-1), Num(1)>>),
      Obj(<<>>),
      Obj(<< <<"a", Str("x")>>, <<"b", Num(-1)>> >>),
      Obj(<< <<"a", Str("abcd")>>, <<"b", Num(2)>>, <<"c", Null>> >>),
      Obj(<< <<"a", Arr(<<>>)>>, <<"b", Num(1)>> >>),
      Obj(<< <<"a", Obj(<< <<"a", Str("x")>>, <<"b", Num(1)>> >>)>> >>) }

EntryPoints == {"validate", "validateAll", "parse", "safeParse"}

InitCall ==
    /\ \E prog \in Programs :
        LET made == Declare(<<>>, <<>>, prog, 1)
        IN  /\ WellTyped(prog)
            /\ heap = made.heap
            /\ arrs = made.arrs
    /\ lastChain = <<"none", 0, 0>>
    /\ call = NoCall
    /\ stack = <<>>
    /\ outcome = <<"none">>
    /\ lastIndex = ZeroLastIndex
    /\ applied = <<>>

\* a caller calls S.validate(v), S.validateAll(v), S.parse(v) or S.safeParse(v)
Call ==
    /\ stack = <<>>
    /\ \E op \in EntryPoints, self \in 1..Len(heap), value \in Values :
        /\ call' = [op |-> op, self |-> self, value |-> value]
        /\ stack' = <<Frame(op, self, value)>>
        /\ outcome' = <<"pending">>
        /\ applied' = <<>>
    /\ UNCHANGED <<heap, arrs, lastChain, lastIndex>>

NextCall ==
    \/ Call
    \/ PromptValidate
    \/ PromptValidateAll
    \/ PromptParse
    \/ PromptSafeParse
    \/ ObjectSafeParse
    \/ ArraySafeParse
    \/ CompoundDelegate

SpecCall == InitCall /\ [][NextCall]_vars

Done == stack = <<>> /\ call.op # "none"
Returned == Done /\ outcome[1] = "return"
Thrown   == Done /\ outcome[1] = "throw"

-----------------------------------------------------------------------------
(* Properties of schema declaration (specification Spec) *)

\* S.validate(v) and S.validateAll(v) of a scalar instance, on given heaps
ValidateOn(H, A, id, v)    == BaseValidate(A[H[id].checks], H[id].isOptional, v)
ValidateAllOn(H, A, id, v) == BaseValidateAll(A[H[id].checks], H[id].isOptional, v)

\* C1: chain purity.  Every factory or chain call returns an instance that
\* did not exist before (so it is not its receiver), and leaves every existing
\* instance as it was: same class, same constraint sequence, same optional-flag,
\* same output-transform, same item schema / shape; hence validate(v) and
\* validateAll(v) of an existing scalar schema give the same result for every
\* value v after the call as before it.
C1_ChainPurity ==
    [][ /\ lastChain'[3] \notin 1..Len(heap)
        /\ lastChain'[3] # lastChain'[2]
        /\ \A id \in 1..Len(heap) :
            /\ id \in 1..Len(heap')
            /\ ContentOf(heap', arrs', id) = ContentOf(heap, arrs, id)
            /\ ~IsCompound(heap[id].cls) =>
                 \A v \in Values :
                    /\ ValidateOn(heap', arrs', id, v) = ValidateOn(heap, arrs, id, v)
                    /\ ValidateAllOn(heap', arrs', id, v)
                          = ValidateAllOn(heap, arrs, id, v) ]_vars

\* a constraint was added to a schema that was itself derived from the first
\* schema by a constraint-adding call, and the first schema has no constraint
C1_Witness ==
    /\ Len(heap) = 3
    /\ lastChain = <<"required", 2, 3>>
    /\ Len(arrs[heap[3].checks]) = 2
    /\ Len(arrs[heap[2].checks]) = 1
    /\ heap[1].cls = "String"
    /\ arrs[heap[1].checks] = <<>>

\* C2: what a chain call on a scalar schema S yields.  A constraint-adding
\* call yields S's constraint sequence plus exactly one constraint, with S's
\* optional-flag and output-transform; optional() yields S's constraints and
\* output-transform with the flag set; transform(fn) yields S's constraints
\* and optional-flag with the transform set to fn.
C2_ModifiersKept ==
    (lastChain[1] \notin {"none", "factory"} /\ ~IsCompound(heap[lastChain[2]].cls)) =>
        LET S == ContentOf(heap, arrs, lastChain[2])
            R == ContentOf(heap, arrs, lastChain[3])
        IN  /\ R.cls = S.cls
            /\ CASE lastChain[1] = "optional" ->
                      /\ R.checks = S.checks
                      /\ R.isOptional
                      /\ R.transformFn = S.transformFn
                 [] lastChain[1] = "transform" ->
                      /\ R.checks = S.checks
                      /\ R.isOptional = S.isOptional
                      /\ R.transformFn # NoTransform
                 [] OTHER ->
                      /\ Len(R.checks) = Len(S.checks) + 1
                      /\ SubSeq(R.checks, 1, Len(S.checks)) = S.checks
                      /\ R.isOptional = S.isOptional
                      /\ R.transformFn = S.transformFn

\* C4: optional semantics.  For a scalar schema S, S.optional() accepts null
\* and undefined whatever constraints S holds (validate gives null,
\* validateAll gives []), holds the constraints of S, and gives every other
\* value the result S gives it.
C4_OptionalSemantics ==
    (lastChain[1] = "optional" /\ ~IsCompound(heap[lastChain[2]].cls)) =>
        LET S == lastChain[2]
            O == lastChain[3]
        IN  /\ arrs[heap[O].checks] = arrs[heap[S].checks]
            /\ \A v \in Values :
                IF v \in {Null, Undefined}
                THEN /\ ValidateOn(heap, arrs, O, v) = NoError
                     /\ ValidateAllOn(heap, arrs, O, v) = <<>>
                ELSE /\ ValidateOn(heap, arrs, O, v) = ValidateOn(heap, arrs, S, v)
                     /\ ValidateAllOn(heap, arrs, O, v) = ValidateAllOn(heap, arrs, S, v)

\* optional() was called on a schema that holds required: S rejects undefined
\* and a blank string, S.optional() accepts undefined
C4_Witness ==
    /\ lastChain = <<"optional", 2, 3>>
    /\ heap[2].cls = "String"
    /\ Len(arrs[heap[2].checks]) = 1
    /\ arrs[heap[2].checks][1].op = "required"
    /\ arrs[heap[2].checks][1].msg = "Required"
    /\ ValidateOn(heap, arrs, 2, Undefined) = Error("Required")
    /\ ValidateOn(heap, arrs, 3, Undefined) = NoError
    /\ ValidateOn(heap, arrs, 3, Str(" ")) = Error("Required")

-----------------------------------------------------------------------------
(* Properties of validation calls (specification SpecCall) *)

Receiver     == heap[call.self]
ReceiverIs(classes) == Done /\ Receiver.cls \in classes
ErrorsOf(r)  == IF r[4] = <<>> THEN <<>> ELSE r[4][1]

\* the messages of the constraints that fail on v, in declaration order: a
\* constraint fails when its validator returns a message instead of null
FailingMessages(checks, v) ==
    LET upTo[i \in 0..Len(checks)] ==
            IF i = 0 THEN <<>>
            ELSE upTo[i - 1] \o (IF Check(checks[i], v) # NoError
                                 THEN <<Check(checks[i], v)[1]>> ELSE <<>>)
    IN  upTo[Len(checks)]

\* C3: short-circuit versus exhaustive.  On a scalar schema (the optional
\* short-circuit on an absent value aside) validateAll(v) is the list of the
\* messages of all failing constraints in declaration order, and validate(v)
\* is the first element of that list, or null exactly when the list is empty.
C3_ExhaustiveAndFirst ==
    (/\ ReceiverIs(ScalarClasses \cup {"Number001"})
     /\ ~(Receiver.isOptional /\ IsNullish(call.value))) =>
        LET all == FailingMessages(arrs[Receiver.checks], call.value)
        IN  /\ call.op = "validateAll" => outcome = <<"return", all>>
            /\ call.op = "validate" =>
                 outcome = <<"return", IF all = <<>> THEN NoError ELSE Error(all[1])>>

\* an ArraySchema as array(item) makes it: its itemSchema is a schema
FactoryArraySchema(id) == heap[id].cls = "Array" /\ heap[id].arg[1] = "schema"
\* an ObjectSchema as object(shape) makes it: its shape maps keys to schemas
FactoryObjectSchema(id) == heap[id].cls = "Object" /\ heap[id].arg[1] = "shape"

\* C5: parse / safeParse round trip and agreement, for a scalar schema and for
\* object(shape).  safeParse never raises and parse raises nothing but the
\* validation error; on a valid v, parse returns v (fn(v) with transform(fn)
\* set) and safeParse returns success = true with that same value as data; on
\* a scalar schema parse raises exactly when validate(v) is an error and
\* exactly when safeParse(v).success is false.
C5_ParseSafeParseAgree ==
    (Done /\ (~IsCompound(Receiver.cls) \/ FactoryObjectSchema(call.self))) =>
        /\ call.op = "safeParse" =>
             /\ Returned
             /\ outcome[2][2] => outcome[2][5] = <<Output(call.self, call.value)>>
        /\ call.op = "parse" =>
             /\ Returned => outcome[2] = Output(call.self, call.value)
             /\ Thrown => outcome[2] = "Error"
        /\ ~IsCompound(Receiver.cls) =>
             LET error == ValidateOn(heap, arrs, call.self, call.value)
             IN  /\ call.op = "parse" => (Thrown <=> error # NoError)
                 /\ call.op = "safeParse" => (~outcome[2][2] <=> error # NoError)

MinOps == {"Number.min", "Number001.min"}
MaxOps == {"Number.max", "Number001.max"}

\* C6: inclusive numeric bounds.  number().min(n) rejects a number v exactly
\* when v < n, number().max(n) exactly when v > n, and number().min(n).max(n)
\* accepts exactly n.
C6_InclusiveBounds ==
    (/\ ReceiverIs({"Number", "Number001"})
     /\ call.op = "validate"
     /\ TypeOf(call.value) = "number") =>
        LET checks   == arrs[Receiver.checks]
            v        == call.value
            rejected == outcome # <<"return", NoError>>
        IN  /\ (Len(checks) = 1 /\ checks[1].op \in MinOps) =>
                 (rejected <=> NumLess(v, Num(checks[1].n)))
            /\ (Len(checks) = 1 /\ checks[1].op \in MaxOps) =>
                 (rejected <=> NumGreater(v, Num(checks[1].n)))
            /\ (/\ Len(checks) = 2
                /\ checks[1].op \in MinOps
                /\ checks[2].op \in MaxOps
                /\ checks[1].n = checks[2].n) =>
                 (~rejected <=> v = Num(checks[1].n))

\* C7: validation is total.  Every call of validate, validateAll, safeParse
\* and parse ends by returning a result, or for parse alone by raising the
\* validation error; in particular array(item).safeParse(v) and
\* array(item).validate(v) return for every array v.
C7_ArrayCallsReturn ==
    (/\ Done
     /\ FactoryArraySchema(call.self)
     /\ call.op \in {"safeParse", "validate"}
     /\ IsArray(call.value)) => Returned

\* the error map the spec gives array(item).safeParse(v) for an array v and a
\* scalar item schema: str(i) -> first error of element i, then root -> first
\* failing top-level constraint
RECURSIVE ItemErrors(_, _, _)
ItemErrors(item, xs, i) ==
    IF i > Len(xs) THEN <<>>
    ELSE LET error == ValidateOn(heap, arrs, item, xs[i])
         IN  (IF error # NoError THEN << <<ToString(i - 1), error[1]>> >> ELSE <<>>)
                 \o ItemErrors(item, xs, i + 1)

ExpectedArrayErrors(id, v) ==
    LET root == FirstError(arrs[heap[id].checks], v, 1)
    IN  ItemErrors(heap[id].arg[2], v[2], 1)
            \o (IF root # NoError THEN << <<"root", root[1]>> >> ELSE <<>>)

ResultOfErrors(errors) ==
    IF errors = <<>> THEN Result(TRUE, <<>>, <<>>, <<>>)
    ELSE Result(FALSE, <<>>, <<errors>>, <<>>)

\* C8: the result of array(item).safeParse(v).  For v not an array it is the
\* failure {root: "Must be an array"}; for an array it is success exactly when
\* the error map is empty, the map holding str(i) -> first error for every
\* failing element and root -> the first failing top-level constraint.
C8_ArraySafeParseResult ==
    (/\ Done
     /\ call.op = "safeParse"
     /\ FactoryArraySchema(call.self)
     /\ ~IsCompound(heap[Receiver.arg[2]].cls)) =>
        outcome = <<"return",
                    IF ~IsArray(call.value)
                    THEN ResultOfErrors(<< <<"root", "Must be an array">> >>)
                    ELSE ResultOfErrors(ExpectedArrayErrors(call.self, call.value))>>

\* the schema array(number()).unique(): an ArraySchema a unique() call returned
UniqueArraySchema(id) ==
    /\ heap[id].cls = "Array"
    /\ \/ \E i \in 1..Len(arrs[heap[id].checks]) :
              arrs[heap[id].checks][i].op = "Array.unique"
       \/ /\ heap[id].arg[1] = "checks"
          /\ \E i \in 1..Len(arrs[heap[id].arg[2]]) :
              arrs[heap[id].arg[2]][i].op = "Array.unique"

\* C9: array uniqueness.  array(number()).unique() rejects an array of numbers
\* exactly when two elements at distinct indices are equal, with a root error,
\* and accepts it otherwise: it fails on [1,2,2,3] and succeeds on [1,2,3].
C9_ArrayUnique ==
    (/\ Done
     /\ call.op = "safeParse"
     /\ UniqueArraySchema(call.self)
     /\ IsArray(call.value)
     /\ \A i \in 1..Len(call.value[2]) : TypeOf(call.value[2][i]) = "number") =>
        LET xs == call.value[2]
            duplicates == \E i, j \in 1..Len(xs) : i < j /\ xs[i] = xs[j]
        IN  /\ Returned
            /\ outcome[2][2] <=> ~duplicates
            /\ ~outcome[2][2] => HasKey(ErrorsOf(outcome[2]), "root")

\* the error map the spec gives object(shape).safeParse(v) for an object v and
\* scalar child schemas: key -> first error of the field, in shape order
RECURSIVE FieldErrors(_, _, _)
FieldErrors(shape, v, i) ==
    IF i > Len(shape) THEN <<>>
    ELSE LET error == ValidateOn(heap, arrs, shape[i][2], GetProp(v, shape[i][1]))
         IN  (IF error # NoError THEN << <<shape[i][1], error[1]>> >> ELSE <<>>)
                 \o FieldErrors(shape, v, i + 1)

ScalarShape(shape) == \A i \in 1..Len(shape) : ~IsCompound(heap[shape[i][2]].cls)

\* C10: object field isolation.  object(shape).safeParse(v) is the failure
\* {root: "Must be an object"} when v is null, undefined or not an object;
\* otherwise it returns, having validated every declared key, with one entry
\* per failing field and success exactly when no field failed.
C10_ObjectFieldIsolation ==
    (/\ Done
     /\ call.op = "safeParse"
     /\ FactoryObjectSchema(call.self)) =>
        IF IsNullish(call.value) \/ TypeOf(call.value) # "object"
        THEN outcome = <<"return", ResultOfErrors(<< <<"root", "Must be an object">> >>)>>
        ELSE /\ Returned
             /\ ScalarShape(Receiver.arg[2]) =>
                  outcome[2] = ResultOfErrors(FieldErrors(Receiver.arg[2], call.value, 1))

-----------------------------------------------------------------------------
(* Chain calls on compound schemas (specification Spec) *)

\* C11: compound chain derivation.  Every chain call on an Array Schema or
\* Object Schema returns a schema of the same concrete kind that holds the
\* same child item-schema (array) or the same field-to-child-schema shape
\* (object) as its receiver.
C11_CompoundDerivation ==
    (lastChain[1] \notin {"none", "factory"} /\ IsCompound(heap[lastChain[2]].cls)) =>
        /\ heap[lastChain[3]].cls = heap[lastChain[2]].cls
        /\ heap[lastChain[3]].arg = heap[lastChain[2]].arg

-----------------------------------------------------------------------------
(* Hidden state (specification SpecCall) *)

\* C12: idempotence, no hidden state.  Whatever calls were made before it, on
\* whatever values and schemas, a call S.validateAll(v) on a scalar schema
\* returns the list that the first call on the newly declared schema returns;
\* so two calls S.validateAll(v) always return identical ordered lists.
C12_ValidateAllIdempotent ==
    (/\ Done
     /\ call.op = "validateAll"
     /\ ~IsCompound(Receiver.cls)) =>
        outcome = <<"return", ValidateAllOn(heap, arrs, call.self, call.value)>>

-----------------------------------------------------------------------------
(* Output transforms (specification SpecCall) *)

\* the declarations that made the schemas of the heap
Declaration ==
    CHOOSE prog \in Programs :
        LET made == Declare(<<>>, <<>>, prog, 1)
        IN  made.heap = heap /\ made.arrs = arrs

MadeByTransform(id) == ~Declaration[id].new /\ Declaration[id].c.m = "transform"

\* S.validate(v) and S.validateAll(v) as the spec gives them for a scalar S
\* and for S = object(shape) with scalar children
ExpectedValidate(S, v) ==
    IF ~IsCompound(heap[S].cls) THEN ValidateOn(heap, arrs, S, v)
    ELSE IF IsNullish(v) \/ TypeOf(v) # "object"
    THEN Error(JsonStringify(<< <<"root", "Must be an object">> >>))
    ELSE LET errors == FromPairs(FieldErrors(heap[S].arg[2], v, 1))
         IN  IF errors = <<>> THEN NoError ELSE Error(JsonStringify(errors))

ExpectedValidateAll(S, v) ==
    IF ~IsCompound(heap[S].cls) THEN ValidateAllOn(heap, arrs, S, v)
    ELSE IF IsNullish(v) \/ TypeOf(v) # "object"
    THEN <<"root: Must be an object">>
    ELSE Flatten(FromPairs(FieldErrors(heap[S].arg[2], v, 1)))

\* C13: transform affects only the output path.  For R = S.transform(fn), S a
\* scalar schema or object(shape) with scalar children: R.validate(v) and
\* R.validateAll(v) return what S.validate(v) and S.validateAll(v) return and
\* never call fn; R.parse(v) and R.safeParse(v) call fn at most once, on v
\* itself, and only when v is valid for S.
C13_TransformOutputOnly ==
    (/\ Done
     /\ MadeByTransform(call.self)
     /\ \/ ~IsCompound(Receiver.cls)
        \/ /\ FactoryObjectSchema(Declaration[call.self].self)
           /\ ScalarShape(heap[Declaration[call.self].self].arg[2])) =>
        LET S     == Declaration[call.self].self
            v     == call.value
            valid == ExpectedValidate(S, v) = NoError
        IN  /\ call.op = "validate" =>
                 outcome = <<"return", ExpectedValidate(S, v)>> /\ applied = <<>>
            /\ call.op = "validateAll" =>
                 outcome = <<"return", ExpectedValidateAll(S, v)>> /\ applied = <<>>
            /\ call.op \in {"parse", "safeParse"} =>
                 /\ applied \in {<<>>, <<v>>}
                 /\ applied # <<>> => valid

-----------------------------------------------------------------------------
(* Guards of the scalar constraints (specification SpecCall) *)

\* the primitive kind the guard of a validator asks for: the Number
\* constraints ask for a number, the String constraints for a string;
\* required and the exact-value checks of Boolean have no guard
GuardMatches(c, v) ==
    IF StartsWith(c.op, "Number") THEN TypeOf(v) = "number"
    ELSE IF StartsWith(c.op, "String.") THEN TypeOf(v) = "string"
    ELSE TRUE

BuiltInOnly(checks) == \A i \in 1..Len(checks) : checks[i].op # "refine"

Applicable(checks, v) == SelectSeq(checks, LAMBDA c : GuardMatches(c, v))

\* C14: scalar constraints never raise.  On a scalar schema built from the
\* built-in Number, String and Boolean constraints and required, validate(v)
\* and validateAll(v) return for a value v of any runtime kind, and what they
\* return is what the constraints whose guard matches the kind of v yield: a
\* constraint whose guard does not match is not applied.
C14_ScalarNeverRaise ==
    [][ (/\ Len(stack) = 1
         /\ Top.m \in {"validate", "validateAll"}
         /\ ~IsCompound(heap[Top.self].cls)
         /\ BuiltInOnly(arrs[heap[Top.self].checks])) =>
            LET v          == Top.value
                isOptional == heap[Top.self].isOptional
                applicable == Applicable(arrs[heap[Top.self].checks], v)
            IN  /\ stack' = <<>>
                /\ Top.m = "validate" =>
                     outcome' = <<"return",
                                  ValidateFrom(applicable, isOptional, v, lastIndex).error>>
                /\ Top.m = "validateAll" =>
                     outcome' = <<"return",
                                  ValidateAllFrom(applicable, isOptional, v, lastIndex).errors>>
      ]_vars

\* validateAll(null) on string().min(8).regex(/[A-Z]/).required(): the two
\* String constraints are not applied, required reports
C14_Witness ==
    /\ Returned
    /\ call.op = "validateAll"
    /\ call.value = Null
    /\ Receiver.cls = "String"
    /\ Len(arrs[Receiver.checks]) = 3
    /\ arrs[Receiver.checks][1].op = "String.min"
    /\ arrs[Receiver.checks][2].op = "String.regex"
    /\ arrs[Receiver.checks][3].op = "required"
    /\ ~Receiver.isOptional
    /\ outcome = <<"return", <<"Required">> >>

-----------------------------------------------------------------------------
(* Flattened errors of compound schemas (specification SpecCall) *)

\* the entries of the error map of S.safeParse(v) in the order the spec gives
\* them, for S = array(item) with a scalar item and S = object(shape) with
\* scalar children: ascending index then root; declaration order of the shape
ExpectedEntries(S, v) ==
    IF heap[S].cls = "Array"
    THEN IF ~IsArray(v) THEN << <<"root", "Must be an array">> >>
         ELSE ExpectedArrayErrors(S, v)
    ELSE IF IsNullish(v) \/ TypeOf(v) # "object"
         THEN << <<"root", "Must be an object">> >>
         ELSE FieldErrors(heap[S].arg[2], v, 1)

\* C15: compound flattening.  For S = array(item) or object(shape) with scalar
\* children, S.validate(v) is null when safeParse succeeds and otherwise the
\* JSON serialization of the error map; S.validateAll(v) is [] on success and
\* otherwise one "key: message" string per entry of the map, by ascending
\* index then root for arrays and in declaration order of the shape for objects.
C15_CompoundFlattening ==
    (/\ Done
     /\ call.op \in {"validate", "validateAll"}
     /\ \/ FactoryArraySchema(call.self) /\ ~IsCompound(heap[Receiver.arg[2]].cls)
        \/ FactoryObjectSchema(call.self) /\ ScalarShape(Receiver.arg[2])) =>
        LET entries == ExpectedEntries(call.self, call.value)
        IN  /\ call.op = "validate" =>
                 outcome = <<"return", IF entries = <<>> THEN NoError
                                       ELSE Error(JsonStringify(FromPairs(entries)))>>
            /\ call.op = "validateAll" =>
                 outcome = <<"return", Flatten(entries)>>

-----------------------------------------------------------------------------
(* Constraints with caller-supplied messages (specification SpecCall) *)

\* the predicate of constraint c is violated by v: its validator yields the
\* message, whatever string the message is
Violates(c, v) == c.p \notin FlaggedPatterns /\ Check(c, v) # NoError

\* C16: a violated constraint is always reported, whatever its message.  On
\* a scalar schema (the optional short-circuit on an absent value aside), when
\* v violates a constraint with message m, the empty string included,
\* validate(v) returns a non-null error, validateAll(v) contains m,
\* safeParse(v).success is false and parse(v) raises.
C16_ViolationReported ==
    (/\ ReceiverIs(ScalarClasses \cup {"Number001"})
     /\ ~(Receiver.isOptional /\ IsNullish(call.value))) =>
        \A i \in 1..Len(arrs[Receiver.checks]) :
            LET c == arrs[Receiver.checks][i]
            IN  Violates(c, call.value) =>
                  /\ call.op = "validate" => Returned /\ outcome[2] # NoError
                  /\ call.op = "validateAll" =>
                       /\ Returned
                       /\ \E k \in 1..Len(outcome[2]) : outcome[2][k] = c.msg
                  /\ call.op = "safeParse" => Returned /\ ~outcome[2][2]
                  /\ call.op = "parse" => Thrown

====
